---- MODULE Spec2Model ----
(***************************************************************************)
(* Model of server.js: an express application that links a storefront's    *)
(* purchase and cancellation webhooks to a Discord premium role, with an   *)
(* OAuth callback that records the buyer's Discord identity.               *)
(*                                                                         *)
(* Every request is an async handler.  A handler runs synchronously up to  *)
(* an `await`, is suspended while the outbound call is in flight, and is   *)
(* resumed with the call's result; handlers of different requests          *)
(* interleave at these suspension points and share the `subscriptions`     *)
(* Map.  Objects stored in the Map are references: `subscriptions.get`     *)
(* returns the object itself, and `subscriptions.set` with an existing key *)
(* installs a new object in place of the old one.                          *)
(*                                                                         *)
(* A step of the model is one synchronous run of the event loop: a request *)
(* arriving and its handler running to its first await or its response, or *)
(* an outbound call's answer arriving and the handler running on to its    *)
(* next await or its response.  A role call has one more step, the moment  *)
(* the platform carries it out, which precedes the arrival of its answer.  *)
(***************************************************************************)
EXTENDS Integers, Sequences, FiniteSets, Bags, TLC

(* ---------------------------- bounds ----------------------------------- *)

\* number of requests the server receives in one behaviour
MaxReqs == 3

\* number of requests whose handlers can be in flight at the same time
MaxInFlight == 2

\* largest value Date.now() takes (milliseconds, counted from 1)
MaxClock == 2

(* ---------------------------- values ----------------------------------- *)

\* the JavaScript value undefined
Undefined == "<undefined>"

\* identity ids a payload or a profile can carry
DiscordIds == {"d1", "d2"}

\* order ids a storefront payload can carry; "1" is also the decimal
\* rendering of a clock value
OrderIds == {"o1", "1"}

\* process.env.WEBSITE_URL
WEBSITE_URL == "https://site"

Digits == <<"0", "1", "2", "3", "4", "5", "6", "7", "8", "9">>

\* Number.prototype.toString() of a non-negative integer
RECURSIVE toString(_)
toString(n) ==
    IF n < 10 THEN Digits[n + 1]
    ELSE toString(n \div 10) \o Digits[(n % 10) + 1]

\* truthiness that takes the empty string for a value
TruthyNonEmpty(v) == v # Undefined

\* JavaScript truthiness of the values that occur here
Truthy(v) == v # Undefined /\ v # ""

\* a || b
Or(a, b) == IF Truthy(a) THEN a ELSE b

\* a set that leaves an existing key as it is
MapSetKeep(m, k, v) ==
    [x \in (DOMAIN m) \cup {k} |-> IF x \in DOMAIN m THEN m[x] ELSE v]

\* Map.prototype.set
MapSet(m, k, v) == [x \in (DOMAIN m) \cup {k} |-> IF x = k THEN v ELSE m[x]]

\* obj.f = v
SetProp(o, f, v) == [g \in (DOMAIN o) \cup {f} |-> IF g = f THEN v ELSE o[g]]

\* obj.f
GetProp(o, f) == IF f \in DOMAIN o THEN o[f] ELSE Undefined

(* ---------------------------- state ------------------------------------ *)

VARIABLES
    subscriptions,  \* the Map: key -> reference of the stored object
    heap,           \* reference -> object (its properties), reachable ones
    tasks,          \* the suspended handlers: a bag of requests, each with
                    \* its handler position, locals and outbound calls made
    sent,           \* the request whose response was sent in the last step,
                    \* with the response (Idle if none was)
    arrivals,       \* number of callback and webhook requests received
    clock,          \* Date.now()
    hasRole,        \* identities holding the premium role on the platform
    settled,        \* the run of a role function that settled in the last
                    \* step: the platform's answers and its completion
    purchased,      \* order ids written by a successful purchase webhook
    revokeFailed,   \* keys for which a cancellation's revoke call failed
    clientUser,     \* client.user: falsy until the gateway reports ready
    replaced,       \* the entry that subscriptions.set displaced in the
                    \* last step (NoRet if it displaced none)
    hung,           \* a suspended handler whose outbound call never returns
                    \* (Idle if there is none)
    responses       \* number of responses sent to the requests received

vars == <<subscriptions, heap, tasks, sent, arrivals, clock, hasRole, settled,
          purchased, revokeFailed, clientUser, replaced, hung, responses>>

NoRet == [t |-> "none"]
NoRes == [status |-> 0, body |-> ""]

\* a Date object; no code reads the time it holds
ADate == "Date"

\* no request
Idle == [kind |-> "none", pc |-> "idle", lacking |-> FALSE,
         key |-> Undefined, discordUserId |-> Undefined, ref |-> 0,
         seen |-> Undefined, calls |-> {}, tokenResponse |-> NoRet,
         ret |-> NoRet, res |-> NoRes]

Init ==
    /\ subscriptions = << >>
    /\ heap = << >>
    /\ tasks = EmptyBag
    /\ sent = Idle
    /\ arrivals = 0
    /\ clock = 1
    /\ hasRole = {}
    /\ settled = NoRet
    /\ purchased = {}
    /\ revokeFailed = {}
    /\ clientUser = Undefined
    /\ replaced = NoRet
    /\ hung = Idle
    /\ responses = 0

\* a lookup that misses a key a suspended cancellation already holds
MapHasUnclaimed(m, k) ==
    /\ k \in DOMAIN m
    /\ \A q \in BagToSet(tasks) : ~(q.kind = "cancellation" /\ q.key = k)

\* Map.prototype.has
MapHas(m, k) == k \in DOMAIN m

\* an event loop that resumes no handler while a call hangs
TasksUnlessHung == IF hung = Idle THEN BagToSet(tasks) ELSE {}

\* the suspended handlers
Tasks == BagToSet(tasks)

\* number of requests whose handlers are suspended
InFlight == BagCardinality(tasks) + (IF hung = Idle THEN 0 ELSE 1)

\* express hands the next request to its route handler
Accepts ==
    /\ arrivals < MaxReqs
    /\ InFlight < MaxInFlight

\* `lacking` records that the request came without the input its handler
\* requires, `seen` the status a cancellation handler's lookup found
NewRequest(k, lacking) == [Idle EXCEPT !.kind = k, !.lacking = lacking]

\* a response after which the handler does not return
RespondAndGoOn(q, s, b) == [q EXCEPT !.res = [status |-> s, body |-> b]]

\* res.status(s).json(b) / res.json(b) / res.redirect(url)
Respond(q, s, b) ==
    [q EXCEPT !.pc = "done", !.ref = 0, !.res = [status |-> s, body |-> b]]

\* the bag of suspended handlers after handler q (Idle for a new request)
\* has run on to q2
Moved(q, q2) ==
    LET rest == IF q = Idle THEN tasks ELSE tasks (-) SetToBag({q})
    IN IF q2.pc = "done" THEN rest ELSE rest (+) SetToBag({q2})

\* handler q runs on to q2: to its next await, or to its response
Run(q, q2) ==
    /\ tasks' = Moved(q, q2)
    /\ sent' = IF q2.pc = "done" THEN q2 ELSE Idle
    /\ responses' = IF q2.res # q.res THEN responses + 1 ELSE responses
    /\ UNCHANGED <<clientUser, hung>>

\* `{...}`: the reference of a newly allocated object
NewRef(h) == CHOOSE n \in 1..MaxReqs :
                /\ n \notin DOMAIN h
                /\ \A m \in 1..(n - 1) : m \in DOMAIN h

\* references held by the Map or by a suspended cancellation handler
Live(subs, ts) ==
    {subs[k] : k \in DOMAIN subs} \cup {q.ref : q \in BagToSet(ts)}
    \cup {hung.ref}

\* objects no reference leads to are gone
Collect(h, subs, ts) == [x \in (DOMAIN h) \cap Live(subs, ts) |-> h[x]]

\* the entry under key k that a subscriptions.set(k, ...) displaces
Displaced(k) ==
    IF MapHas(subscriptions, k)
    THEN [t |-> "entry", key |-> k, object |-> heap[subscriptions[k]]]
    ELSE NoRet

\* time passes
Tick ==
    /\ clock < MaxClock
    /\ clock' = clock + 1
    /\ sent' = Idle
    /\ settled' = NoRet
    /\ replaced' = NoRet
    /\ UNCHANGED <<subscriptions, heap, tasks, arrivals, hasRole, purchased,
                   revokeFailed, clientUser, hung, responses>>

(* ---------------------------- role client ------------------------------ *)

\* what the platform answers to the calls of a role function, in order:
\* guild lookup, member lookup, role lookup, role add / remove; a call after
\* one that rejected is not made
RoleEnv(g, m, ro, mu) == [guild |-> g, member |-> m, role |-> ro, mutate |-> mu]

\* members.fetch(undefined) resolves to a collection, not to a member, so
\* that the add / remove on it rejects
RoleEnvs(discordUserId) ==
    {RoleEnv("throw", "unasked", "unasked", "unasked"),
     RoleEnv("ok", "throw", "unasked", "unasked"),
     RoleEnv("ok", "ok", "throw", "unasked"),
     RoleEnv("ok", "ok", "null", "throw"),
     RoleEnv("ok", "ok", "ok", "throw")}
    \cup (IF discordUserId = Undefined THEN {}
          ELSE {RoleEnv("ok", "ok", "ok", "ok")})

\* the try block of assignPremiumRole / removePremiumRole: the first call
\* that rejects ends it
RoleTry(e) ==
    IF e.guild = "throw" THEN "guild"
    ELSE IF e.member = "throw" THEN "member"
    ELSE IF e.role = "throw" THEN "role"
    ELSE IF e.mutate = "throw" THEN "mutate"
    ELSE "none"

\* completion of the async function without its catch block
RoleResultUncaught(failedAt) ==
    [t |-> "role", threw |-> (failedAt # "none"), value |-> (failedAt = "none")]

\* completion of the async function: `return true` at the end of the try
\* block, and the catch block turns every rejection into `return false`
RoleResult(failedAt) ==
    [t |-> "role", threw |-> FALSE, value |-> (failedAt = "none")]

assignPremiumRole(e) == RoleResult(RoleTry(e))

removePremiumRole(e) == RoleResult(RoleTry(e))

\* `if (success)` taken whatever the role function returned
successAlways(ret) == TRUE

\* const success = await assignPremiumRole(...) / removePremiumRole(...)
success(ret) == ret.value

(* ---------------------------- POST /webhook/purchase ------------------- *)

\* order.customFields: absent, an object without the field, or with it
CustomFieldsValues ==
    {[present |-> FALSE, discordUserId |-> Undefined],
     [present |-> TRUE, discordUserId |-> Undefined],
     [present |-> TRUE, discordUserId |-> "d1"]}

PurchaseBodies ==
    [customFields : CustomFieldsValues,
     discordUserId : {Undefined, "", "d2"},
     id : OrderIds]

\* the payload carries no identity id in either accepted location
NoIdentity(order) ==
    /\ \/ ~order.customFields.present
       \/ order.customFields.discordUserId \in {Undefined, ""}
    /\ order.discordUserId \in {Undefined, ""}

\* order.customFields?.discordUserId
OptChain(cf) == IF cf.present THEN cf.discordUserId ELSE Undefined

\* const discordUserId = order.customFields?.discordUserId || order.discordUserId
OrderDiscordUserId(order) == Or(OptChain(order.customFields), order.discordUserId)

\* a purchase webhook arrives: handler entry up to
\* `await assignPremiumRole(discordUserId)`
PurchaseHandle ==
    /\ Accepts
    /\ \E order \in PurchaseBodies :
         LET discordUserId == OrderDiscordUserId(order)
             q == NewRequest("purchase", NoIdentity(order))
         IN Run(Idle,
                IF ~Truthy(discordUserId)
                THEN Respond(q, 400, "No Discord user ID")
                ELSE [q EXCEPT !.pc = "awaitGrant", !.key = order.id,
                               !.discordUserId = discordUserId,
                               !.calls = {<<"grant", discordUserId>>}])
    /\ arrivals' = arrivals + 1
    /\ settled' = NoRet
    /\ replaced' = NoRet
    /\ UNCHANGED <<subscriptions, heap, clock, hasRole, purchased, revokeFailed>>

\* the platform carries out the calls of assignPremiumRole, which settles
GrantReturn ==
    \E q \in Tasks :
        /\ q.pc = "awaitGrant"
        /\ \E e \in RoleEnvs(q.discordUserId) :
             LET failedAt == RoleTry(e)
                 ret == assignPremiumRole(e)
             IN /\ Run(q, [q EXCEPT !.pc = "grantReturned", !.ret = ret])
                /\ hasRole' = IF failedAt = "none"
                              THEN hasRole \cup {q.discordUserId}
                              ELSE hasRole
                /\ settled' = [t |-> "role", env |-> e, completion |-> ret]
                /\ replaced' = NoRet
        /\ UNCHANGED <<subscriptions, heap, arrivals, clock, purchased, revokeFailed>>

\* the purchase handler's object literal with another status
PurchaseRecordPending(discordUserId, id) ==
    [discordId |-> discordUserId, orderId |-> id, status |-> "pending-link",
     createdAt |-> ADate]

\* the object literal stored by the purchase handler
PurchaseRecord(discordUserId, id) ==
    [discordId |-> discordUserId, orderId |-> id, status |-> "active",
     createdAt |-> ADate]

\* the handler resumes after the await
PurchaseResume ==
    \E q \in Tasks :
        /\ q.pc = "grantReturned"
        /\ IF q.ret.threw
           THEN /\ Run(q, Respond(q, 500, "Webhook processing failed"))
                /\ replaced' = NoRet
                /\ UNCHANGED <<subscriptions, heap, purchased>>
           ELSE IF success(q.ret)
           THEN /\ subscriptions' = MapSet(subscriptions, q.key, NewRef(heap))
                /\ replaced' = Displaced(q.key)
                /\ Run(q, Respond(q, 200, "Role assigned successfully"))
                /\ heap' = Collect(MapSet(heap, NewRef(heap),
                                          PurchaseRecord(q.discordUserId, q.key)),
                                   subscriptions', tasks')
                /\ purchased' = purchased \cup {q.key}
           ELSE /\ Run(q, Respond(q, 500, "Failed to assign role"))
                /\ replaced' = NoRet
                /\ UNCHANGED <<subscriptions, heap, purchased>>
        /\ settled' = NoRet
        /\ UNCHANGED <<arrivals, clock, hasRole, revokeFailed>>

(* ---------------------------- POST /webhook/cancellation --------------- *)

CancellationBodies == [id : OrderIds]

\* a cancellation webhook arrives: handler entry up to
\* `await removePremiumRole(subscription.discordId)`
CancellationHandle ==
    /\ Accepts
    /\ \E order \in CancellationBodies :
         LET q == [NewRequest("cancellation", FALSE) EXCEPT !.key = order.id]
         IN Run(Idle,
                IF ~MapHas(subscriptions, order.id)
                THEN Respond(q, 404, "Subscription not found")
                ELSE LET subscription == subscriptions[order.id]
                         discordId == GetProp(heap[subscription], "discordId")
                     IN [q EXCEPT !.pc = "awaitRevoke", !.ref = subscription,
                                  !.seen = GetProp(heap[subscription], "status"),
                                  !.discordUserId = discordId,
                                  !.calls = {<<"revoke", discordId>>}])
    /\ arrivals' = arrivals + 1
    /\ settled' = NoRet
    /\ replaced' = NoRet
    /\ UNCHANGED <<subscriptions, heap, clock, hasRole, purchased, revokeFailed>>

\* the platform carries out the calls of removePremiumRole, which settles
RevokeReturn ==
    \E q \in Tasks :
        /\ q.pc = "awaitRevoke"
        /\ \E e \in RoleEnvs(q.discordUserId) :
             LET failedAt == RoleTry(e)
                 ret == removePremiumRole(e)
             IN /\ Run(q, [q EXCEPT !.pc = "revokeReturned", !.ret = ret])
                /\ hasRole' = IF failedAt = "none"
                              THEN hasRole \ {q.discordUserId}
                              ELSE hasRole
                /\ settled' = [t |-> "role", env |-> e, completion |-> ret]
                /\ replaced' = NoRet
        /\ UNCHANGED <<subscriptions, heap, arrivals, clock, purchased, revokeFailed>>

\* subscription.status = 'cancelled'; subscription.cancelledAt = new Date()
CancelRecord(o) ==
    SetProp(SetProp(o, "status", "cancelled"), "cancelledAt", ADate)

\* the handler resumes after the await
CancellationResume ==
    \E q \in Tasks :
        /\ q.pc = "revokeReturned"
        /\ IF q.ret.threw
           THEN /\ Run(q, Respond(q, 500, "Webhook processing failed"))
                /\ heap' = Collect(heap, subscriptions, tasks')
                /\ UNCHANGED revokeFailed
           ELSE IF success(q.ret)
           THEN /\ Run(q, Respond(q, 200, "Role removed successfully"))
                /\ heap' = Collect([heap EXCEPT ![q.ref] = CancelRecord(@)],
                                   subscriptions, tasks')
                /\ UNCHANGED revokeFailed
           ELSE /\ Run(q, Respond(q, 500, "Failed to remove role"))
                /\ heap' = Collect(heap, subscriptions, tasks')
                /\ revokeFailed' = revokeFailed \cup {q.key}
        /\ settled' = NoRet
        /\ replaced' = NoRet
        /\ UNCHANGED <<subscriptions, arrivals, clock, hasRole, purchased>>

(* ---------------------------- GET /auth/discord/callback --------------- *)

CallbackQueries == [code : {Undefined, "", "c1"}]

\* the query carries no code
NoCode(query) == query.code \in {Undefined, ""}

\* a fetch() promise rejects (network failure) or resolves to a response
\* with a status (ok = 2xx) and a body that is JSON or not
NetErr == [t |-> "fetch", kind |-> "neterr", ok |-> FALSE, json |-> FALSE,
           data |-> Undefined]

Response(ok, json, data) ==
    [t |-> "fetch", kind |-> "response", ok |-> ok, json |-> json,
     data |-> data]

\* answers of the token endpoint; data is the body's access_token
TokenOutcomes ==
    {NetErr, Response(TRUE, TRUE, "tok"), Response(TRUE, TRUE, Undefined),
     Response(TRUE, FALSE, Undefined), Response(FALSE, TRUE, Undefined)}

\* answers of the profile endpoint to a request bearing access token a;
\* data is the body's id
UserOutcomes(a) ==
    {NetErr, Response(TRUE, FALSE, Undefined), Response(FALSE, TRUE, Undefined)}
    \cup (IF a = "tok" THEN {Response(TRUE, TRUE, d) : d \in DiscordIds}
          ELSE {})

\* the username the profile body carries next to id
Username(id) == IF id = Undefined THEN Undefined ELSE "name-" \o id

\* `await fetch(...)` rejects, or `await response.json()` does
FetchThrows(o) == o.kind = "neterr" \/ ~o.json

\* an OAuth callback arrives: handler entry up to `await fetch(token endpoint)`
CallbackHandle ==
    /\ Accepts
    /\ \E query \in CallbackQueries :
         LET q == NewRequest("callback", NoCode(query))
         IN Run(Idle,
                IF ~Truthy(query.code)
                THEN Respond(q, 400, "No code provided")
                ELSE [q EXCEPT !.pc = "awaitToken", !.calls = {<<"token">>}])
    /\ arrivals' = arrivals + 1
    /\ settled' = NoRet
    /\ replaced' = NoRet
    /\ UNCHANGED <<subscriptions, heap, clock, hasRole, purchased, revokeFailed>>

\* the token endpoint answers and the handler resumes: tokenResponse.json(),
\* then up to `await fetch(profile endpoint)`
CallbackToken ==
    \E q \in Tasks :
        /\ q.pc = "awaitToken"
        /\ \E tokenResponse \in TokenOutcomes :
             LET q1 == [q EXCEPT !.tokenResponse = tokenResponse]
             IN Run(q,
                    IF FetchThrows(tokenResponse)
                    THEN Respond(q1, 500, "Authentication failed")
                    ELSE [q1 EXCEPT !.pc = "awaitUser",
                                    !.calls = q.calls \cup {<<"profile">>}])
        /\ settled' = NoRet
        /\ replaced' = NoRet
        /\ UNCHANGED <<subscriptions, heap, arrivals, clock, hasRole, purchased,
                       revokeFailed>>

\* the object literal stored by the callback handler
SessionRecord(id, now) ==
    [discordId |-> id, username |-> Username(id), timestamp |-> now]

\* a redirect target without the session parameter
CheckoutUrlBare(sessionId) == WEBSITE_URL \o "/checkout"

\* the redirect target
CheckoutUrl(sessionId) == WEBSITE_URL \o "/checkout?session=" \o sessionId

\* the profile endpoint answers the request bearing tokenData.access_token
\* and the handler resumes: userResponse.json(), the session record and the
\* redirect
CallbackResume ==
    \E q \in Tasks :
        /\ q.pc = "awaitUser"
        /\ \E userResponse \in UserOutcomes(q.tokenResponse.data) :
             LET q1 == [q EXCEPT !.ret = userResponse]
             IN IF FetchThrows(userResponse)
                THEN /\ Run(q, Respond(q1, 500, "Authentication failed"))
                     /\ replaced' = NoRet
                     /\ UNCHANGED <<subscriptions, heap>>
                ELSE LET sessionId == toString(clock)
                     IN /\ subscriptions' = MapSet(subscriptions, sessionId,
                                                   NewRef(heap))
                        /\ replaced' = Displaced(sessionId)
                        /\ Run(q, Respond([q1 EXCEPT !.key = sessionId,
                                              !.discordUserId = userResponse.data],
                                          302, CheckoutUrl(sessionId)))
                        /\ heap' = Collect(MapSet(heap, NewRef(heap),
                                         SessionRecord(userResponse.data, clock)),
                                         subscriptions', tasks')
        /\ settled' = NoRet
        /\ UNCHANGED <<arrivals, clock, hasRole, purchased, revokeFailed>>

(* ---------------------------- bot login, GET /health ------------------- *)

\* the ClientUser object that client.user holds once the bot is logged in
BotUser == "bot-user"

\* client.login(token) completes: the gateway reports ready, client.user is
\* set and the 'ready' listener logs client.user.tag
Ready ==
    /\ ~Truthy(clientUser)
    /\ clientUser' = BotUser
    /\ sent' = Idle
    /\ settled' = NoRet
    /\ replaced' = NoRet
    /\ UNCHANGED <<subscriptions, heap, tasks, arrivals, clock, hasRole,
                   purchased, revokeFailed, hung, responses>>

\* the bot field of the health body whatever client.user holds
BotAlwaysConnected(user) == "connected"

\* client.user ? 'connected' : 'disconnected'
Bot(user) == IF Truthy(user) THEN "connected" ELSE "disconnected"

\* a health check arrives and is answered in the same run; res.json sends
\* status 200, and of the body the model keeps the bot field
Health ==
    /\ sent' = Respond(NewRequest("health", FALSE), 200, Bot(clientUser))
    /\ settled' = NoRet
    /\ replaced' = NoRet
    /\ UNCHANGED <<subscriptions, heap, tasks, arrivals, clock, hasRole,
                   purchased, revokeFailed, clientUser, hung, responses>>

(* ---------------------------- specification ---------------------------- *)

Next ==
    \/ Tick
    \/ Ready
    \/ Health
    \/ PurchaseHandle
    \/ CancellationHandle
    \/ CallbackHandle
    \/ GrantReturn \/ PurchaseResume
    \/ RevokeReturn \/ CancellationResume
    \/ CallbackToken \/ CallbackResume

Spec == Init /\ [][Next]_vars

\* the handler positions at which an outbound call is in flight
AwaitPcs == {"awaitGrant", "awaitRevoke", "awaitToken", "awaitUser"}

\* an outbound call of a suspended handler hangs: no timeout is set on it,
\* so the handler stays suspended at its await for good
Hang ==
    /\ hung = Idle
    /\ \E q \in Tasks :
           /\ q.pc \in AwaitPcs
           /\ tasks' = tasks (-) SetToBag({q})
           /\ hung' = q
    /\ sent' = Idle
    /\ settled' = NoRet
    /\ replaced' = NoRet
    /\ UNCHANGED <<subscriptions, heap, arrivals, clock, hasRole, purchased,
                   revokeFailed, clientUser, responses>>

NextHang == Next \/ Hang

\* every outbound call that does not hang is answered, and the event loop
\* resumes the handler that awaits it
Fairness ==
    /\ WF_vars(GrantReturn) /\ WF_vars(PurchaseResume)
    /\ WF_vars(RevokeReturn) /\ WF_vars(CancellationResume)
    /\ WF_vars(CallbackToken) /\ WF_vars(CallbackResume)

FairSpec == Init /\ [][NextHang]_vars /\ Fairness

TypeOK ==
    /\ clock \in 1..MaxClock
    /\ arrivals \in 0..MaxReqs
    /\ InFlight <= MaxInFlight
    /\ responses \in 0..arrivals
    /\ DOMAIN heap \subseteq 1..MaxReqs
    /\ \A k \in DOMAIN subscriptions : subscriptions[k] \in DOMAIN heap
    /\ \A q \in Tasks \cup {hung} : q.ref # 0 => q.ref \in DOMAIN heap

(* ---------------------------- properties ------------------------------- *)

\* what a read of the Map yields: key -> the stored object
Store == [k \in DOMAIN subscriptions |-> heap[subscriptions[k]]]

\* a step writes nothing: the Map is as it was and so is every object
NoWrite ==
    /\ Store' = Store
    /\ subscriptions' = subscriptions
    /\ \A x \in (DOMAIN heap) \cap (DOMAIN heap') : heap'[x] = heap[x]

\* request q has made no outbound call
NoCalls(q) == q.calls = {}

\* the role function of request q returned true / returned false
Granted(q) == q.ret.t = "role" /\ ~q.ret.threw /\ q.ret.value
Refused(q) == q.ret.t = "role" /\ ~q.ret.threw /\ ~q.ret.value

\* C1: a purchase webhook with identity id d and order id k whose role
\* grant succeeds responds 200, and at that moment the entry under k has
\* discordId d, orderId k and status "active"
C1_GrantedPurchaseIsActive ==
    (sent.kind = "purchase" /\ Granted(sent)) =>
        /\ sent.res.status = 200
        /\ MapHas(subscriptions, sent.key)
        /\ GetProp(Store[sent.key], "discordId") = sent.discordUserId
        /\ GetProp(Store[sent.key], "orderId") = sent.key
        /\ GetProp(Store[sent.key], "status") = "active"

\* a granted purchase has just responded for an order id whose earlier
\* entry a cancellation had tried to cancel
C1_Witness ==
    /\ sent.kind = "purchase" /\ Granted(sent) /\ sent.res.status = 200
    /\ sent.discordUserId \in DiscordIds /\ sent.key \in OrderIds
    /\ sent.key \in revokeFailed

\* C2: a purchase webhook with no identity id in either location responds
\* 400, makes no role-grant call and leaves the store as it was
C2_NoIdentityIs400 ==
    [][/\ \A q \in BagToSet(tasks') : ~(q.kind = "purchase" /\ q.lacking)
       /\ (sent'.kind = "purchase" /\ sent'.lacking) =>
              (sent'.res.status = 400 /\ NoCalls(sent') /\ NoWrite)]_vars

\* a purchase without identity id has just been refused while the store
\* holds an entry
C2_Witness ==
    /\ sent.kind = "purchase" /\ sent.lacking /\ sent.res.status = 400
    /\ DOMAIN subscriptions # {}

\* C3: a purchase webhook whose role grant fails responds 500 and writes
\* nothing; in both webhook handlers a step that writes to the store is the
\* step of a request whose role call has returned success
C3_WriteOnlyAfterSuccess ==
    [][/\ (sent'.kind = "purchase" /\ Refused(sent')) =>
              (sent'.res.status = 500 /\ NoWrite)
       /\ ~NoWrite =>
              \/ sent'.kind = "callback"
              \/ sent'.kind \in {"purchase", "cancellation"} /\ Granted(sent')]_vars

\* a purchase whose grant failed has just responded 500 for an order id
\* that has an entry
C3_Witness ==
    /\ sent.kind = "purchase" /\ Refused(sent) /\ sent.res.status = 500
    /\ MapHas(subscriptions, sent.key)

\* C4: a cancellation webhook for an order id that no successful purchase
\* webhook has written responds 404 and makes no revoke call
C4_UnknownOrderIs404 ==
    /\ \A q \in Tasks : q.kind = "cancellation" => q.key \in purchased
    /\ (sent.kind = "cancellation" /\ sent.key \notin purchased) =>
           (sent.res.status = 404 /\ NoCalls(sent))

\* C5: a cancellation webhook that found an active record under k and whose
\* revoke succeeds responds 200, and at that moment the entry under k has
\* status "cancelled" and cancelledAt set
C5_RevokedOrderIsCancelled ==
    (sent.kind = "cancellation" /\ sent.seen = "active" /\ Granted(sent)) =>
        /\ sent.res.status = 200
        /\ MapHas(subscriptions, sent.key)
        /\ GetProp(Store[sent.key], "status") = "cancelled"
        /\ "cancelledAt" \in DOMAIN Store[sent.key]

\* C6: a cancellation webhook whose revoke fails responds 500 and writes
\* nothing; the key stays in the Map, and a cancellation webhook arriving
\* for it later is not answered "not found" but makes a revoke call
C6_FailedRevokeCanBeRetried ==
    [][/\ (sent'.kind = "cancellation" /\ Refused(sent')) =>
              (sent'.res.status = 500 /\ NoWrite)
       /\ \A k \in revokeFailed : MapHas(subscriptions', k)
       /\ (arrivals' # arrivals /\ sent'.kind = "cancellation") =>
              sent'.key \notin revokeFailed
       /\ \A q \in BagToSet(tasks') :
              q.kind = "cancellation" =>
                  q.calls = {<<"revoke", q.discordUserId>>}]_vars

\* a cancellation is awaiting its revoke call for an order id whose earlier
\* cancellation failed, the record still being active
C6_Witness ==
    \E q \in Tasks :
        /\ q.kind = "cancellation" /\ q.pc = "awaitRevoke"
        /\ q.key \in revokeFailed
        /\ GetProp(Store[q.key], "status") = "active"
        /\ "cancelledAt" \notin DOMAIN Store[q.key]

\* C7: an OAuth callback without code responds 400, makes no token or
\* profile call and leaves the store as it was
C7_NoCodeIs400 ==
    [][/\ \A q \in BagToSet(tasks') : ~(q.kind = "callback" /\ q.lacking)
       /\ (sent'.kind = "callback" /\ sent'.lacking) =>
              (sent'.res.status = 400 /\ NoCalls(sent') /\ NoWrite)]_vars

\* a callback without code has just been refused while the store holds an
\* entry
C7_Witness ==
    /\ sent.kind = "callback" /\ sent.lacking /\ sent.res.status = 400
    /\ DOMAIN subscriptions # {}

\* a fetch failed: network failure or a non-2xx response
FetchFailed(o) == o.t = "fetch" /\ (o.kind = "neterr" \/ ~o.ok)

\* the body of a fetch is not the expected payload: no JSON, or JSON
\* without the expected field
Malformed(o) ==
    o.t = "fetch" /\ o.kind = "response" /\ (~o.json \/ o.data = Undefined)

\* a fetch returned a 2xx response carrying the expected field
Fetched(o) ==
    o.t = "fetch" /\ o.kind = "response" /\ o.ok /\ o.json /\ o.data # Undefined

\* C8: an OAuth callback whose token exchange or profile fetch fails
\* (network failure, non-2xx response, malformed token payload) responds
\* with the generic 500 and writes no record
C8_FailedExchangeIs500 ==
    [][(/\ sent'.kind = "callback"
        /\ \/ FetchFailed(sent'.tokenResponse) \/ Malformed(sent'.tokenResponse)
           \/ FetchFailed(sent'.ret)) =>
              /\ sent'.res = [status |-> 500, body |-> "Authentication failed"]
              /\ NoWrite]_vars

\* C9: an OAuth callback whose token exchange and profile fetch succeed
\* stores one new record, under the key minted from the current time,
\* holding the fetched identity id, leaves every other entry alone, and
\* redirects to {WEBSITE_URL}/checkout?session=<that key>
C9_CallbackStoresSession ==
    [][(/\ sent'.kind = "callback"
        /\ Fetched(sent'.tokenResponse) /\ Fetched(sent'.ret)) =>
              \E k \in DOMAIN subscriptions' :
                  /\ k = toString(clock)
                  /\ subscriptions'[k] \notin DOMAIN heap
                  /\ GetProp(heap'[subscriptions'[k]], "discordId") = sent'.ret.data
                  /\ \A j \in (DOMAIN subscriptions') \ {k} :
                         /\ j \in DOMAIN subscriptions
                         /\ subscriptions'[j] = subscriptions[j]
                         /\ heap'[subscriptions'[j]] = heap[subscriptions[j]]
                  /\ DOMAIN subscriptions \subseteq DOMAIN subscriptions'
                  /\ sent'.res.status = 302
                  /\ sent'.res.body = WEBSITE_URL \o "/checkout?session=" \o k]_vars

\* a callback has just redirected after storing a fetched identity next to
\* an entry of the purchase handler
C9_Witness ==
    /\ sent.kind = "callback" /\ sent.res.status = 302
    /\ Fetched(sent.tokenResponse) /\ Fetched(sent.ret)
    /\ \E k \in DOMAIN subscriptions :
           /\ sent.res.body = WEBSITE_URL \o "/checkout?session=" \o k
           /\ GetProp(Store[k], "discordId") = sent.ret.data
    /\ purchased # {}

\* every call the role function made was answered with success
AllOk(e) ==
    e.guild = "ok" /\ e.member = "ok" /\ e.role = "ok" /\ e.mutate = "ok"

\* C10: for every outcome of the guild lookup, member lookup, role lookup
\* and role add / remove, a role function does not throw and returns true
\* exactly when all four succeeded; no webhook handler responds from its
\* catch branch
C10_RoleCallsNeverThrow ==
    /\ settled.t = "role" =>
           /\ ~settled.completion.threw
           /\ settled.completion.value <=> AllOk(settled.env)
    /\ \A q \in Tasks : q.ret.t = "role" => ~q.ret.threw
    /\ sent.kind \in {"purchase", "cancellation"} =>
           sent.res.body # "Webhook processing failed"

\* a role function has just returned false because the role lookup
\* resolved null
C10_Witness ==
    /\ settled.t = "role" /\ settled.env.role = "null"
    /\ ~settled.completion.threw /\ ~settled.completion.value

\* C11: a health check is answered with status 200 whatever the state of
\* the bot connection, and its bot field reads "connected" exactly when the
\* login has completed (client.user is set), "disconnected" before
C11_HealthReportsLogin ==
    sent.kind = "health" =>
        /\ sent.res.status = 200
        /\ sent.res.body = IF clientUser = BotUser THEN "connected"
                           ELSE "disconnected"

\* a health check answered after the login, with requests in flight
C11_Witness ==
    /\ sent.kind = "health"
    /\ sent.res.body = "connected"
    /\ tasks # EmptyBag

\* request q is a cancellation of order k suspended after its lookup found
\* an entry with status "active" and it called revoke for the entry's owner
Revoking(q, k) ==
    /\ q.kind = "cancellation" /\ q.key = k /\ q.seen = "active"
    /\ q.calls = {<<"revoke", q.discordUserId>>}

\* C12: nothing but the absence of the key stops a cancellation webhook at
\* its lookup: it is refused with 404 only when no entry is stored under its
\* order id, and every cancellation past the lookup has called revoke, also
\* when another cancellation of that order is suspended at its own revoke
\* call; so two revoke calls for one order with one successful purchase
\* are reachable
C12_LookupDoesNotExclude ==
    /\ (sent.kind = "cancellation" /\ sent.res.status = 404)
           => sent.key \notin DOMAIN subscriptions
    /\ \A q \in Tasks :
           q.kind = "cancellation" =>
               /\ q.calls = {<<"revoke", q.discordUserId>>}
               /\ q.ref # 0

\* one purchase of order k has succeeded, no other request has been
\* answered, and two cancellations of k have both called revoke before
\* either wrote "cancelled"
C12_Witness ==
    \E k \in purchased :
        /\ responses = 1
        /\ GetProp(Store[k], "status") = "active"
        /\ \E q \in Tasks :
               /\ Revoking(q, k)
               /\ \/ CopiesIn(q, tasks) >= 2
                  \/ \E p \in Tasks \ {q} : Revoking(p, k)

\* object o without its createdAt property
SansCreatedAt(o) == [f \in (DOMAIN o) \ {"createdAt"} |-> o[f]]

\* the purchase webhook answered in the last step is a replay: the entry
\* its write displaced was written by a purchase webhook of the same order
\* id and identity id
Replayed ==
    /\ sent.kind = "purchase" /\ sent.res.status = 200
    /\ sent.key \in purchased
    /\ replaced.t = "entry" /\ replaced.key = sent.key
    /\ GetProp(replaced.object, "orderId") = sent.key
    /\ GetProp(replaced.object, "discordId") = sent.discordUserId

\* C13: when a replayed purchase webhook succeeds, the record under its
\* order id equals, createdAt aside, the record that was there immediately
\* before the replay, whatever was processed in between (a cancellation of
\* that order included)
C13_ReplayKeepsRecord ==
    Replayed => SansCreatedAt(Store[sent.key]) = SansCreatedAt(replaced.object)

\* the stored objects with status "active" whose discordId is d
ActiveKeys(d) ==
    {k \in DOMAIN subscriptions :
        /\ GetProp(Store[k], "status") = "active"
        /\ GetProp(Store[k], "discordId") = d}

\* C14: in every reachable state of the store, each discordId appears in
\* at most one record whose status is "active"
C14_OneActivePerIdentity ==
    \A d \in DiscordIds : Cardinality(ActiveKeys(d)) <= 1

\* object o was created by the OAuth callback handler
IsSession(o) == "timestamp" \in DOMAIN o

\* C15: a record created by the OAuth callback handler is never read,
\* overwritten or modified by a later request: it carries no status, no
\* suspended cancellation handler holds it (having called revoke with its
\* discordId), and no subscriptions.set displaces it
C15_SessionRecordUntouched ==
    /\ \A x \in DOMAIN heap : IsSession(heap[x]) => "status" \notin DOMAIN heap[x]
    /\ \A q \in Tasks : q.ref # 0 => ~IsSession(heap[q.ref])
    /\ replaced.t = "entry" => ~IsSession(replaced.object)

\* C16: the session key an OAuth callback mints is the decimal rendering of
\* the millisecond in which it mints, so two callbacks minting in the same
\* millisecond get the same key; the later write replaces the earlier
\* record, and the key the redirect carries resolves to the later user's
\* identity
C16_SameMillisecondSameKey ==
    (sent.kind = "callback" /\ sent.res.status = 302) =>
        /\ sent.key = toString(clock)
        /\ sent.res.body = WEBSITE_URL \o "/checkout?session=" \o sent.key
        /\ GetProp(Store[sent.key], "discordId") = sent.ret.data
        /\ GetProp(Store[sent.key], "timestamp") = clock

\* a callback has just been redirected with a key under which another
\* user's callback stored its record in the same millisecond
C16_Witness ==
    /\ sent.kind = "callback" /\ sent.res.status = 302
    /\ replaced.t = "entry" /\ replaced.key = sent.key
    /\ IsSession(replaced.object)
    /\ replaced.object.timestamp = clock
    /\ replaced.object.discordId \in DiscordIds \ {sent.ret.data}
    /\ sent.ret.data \in DiscordIds
    /\ GetProp(Store[sent.key], "discordId") = sent.ret.data

\* C17: a request whose outbound call never returns blocks only itself:
\* from then on the other requests in flight, and those arriving later,
\* run to their responses; the hung request is suspended at its await
\* without a response, and has written nothing, a write to the store being
\* made only in the run in which its request is answered
C17_HangBlocksOnlyItself ==
    /\ (hung # Idle) ~> (tasks = EmptyBag)
    /\ [](hung # Idle => hung.pc \in AwaitPcs /\ hung.res = NoRes)
    /\ [][~NoWrite => sent'.pc = "done"]_vars

\* while a cancellation of an order hangs at its revoke call, another
\* request on the same order id has been answered
C17_Witness ==
    /\ hung.kind = "cancellation" /\ hung.pc = "awaitRevoke"
    /\ sent.kind \in {"purchase", "cancellation"}
    /\ sent.key = hung.key
    /\ sent.res.status = 200
    /\ tasks = EmptyBag

\* C18: in every quiescent state (no request in flight), role calls taking
\* effect exactly when they report success, an identity holds the premium
\* role if and only if the store holds a record with its discordId and
\* status "active"
C18_StoreAgreesWithPlatform ==
    InFlight = 0 =>
        \A d \in DiscordIds : d \in hasRole <=> ActiveKeys(d) # {}

\* number of requests whose outbound call hangs
Hung == IF hung = Idle THEN 0 ELSE 1

\* C19: every request to the callback, purchase and cancellation handlers
\* whose outbound calls all return is eventually answered, and answered
\* once: at any moment each request received has either been answered
\* exactly once and its handler has ended, or its handler is suspended and
\* has sent nothing; the catch branches included
C19_ExactlyOneResponse ==
    /\ []<>(responses + Hung = arrivals)
    /\ [](responses + InFlight = arrivals)
    /\ [](\A q \in Tasks \cup {hung} : q.res = NoRes)
    /\ [](sent.kind \in {"callback", "purchase", "cancellation"}
             => sent.res.status \in {200, 302, 400, 404, 500})

\* every request received has been answered, the last one from the
\* callback handler's catch branch after its profile fetch failed
C19_Witness ==
    /\ hung = Idle /\ tasks = EmptyBag
    /\ arrivals >= 2 /\ responses = arrivals
    /\ sent.kind = "callback" /\ sent.res.body = "Authentication failed"
    /\ sent.calls = {<<"token">>, <<"profile">>}

====
